---------------------------- MODULE Spec2Model ----------------------------
(***************************************************************************)
(* A model of calvin/models/play_lmp.py (class PlayLMP): the visual        *)
(* embedding fusion, the training and validation steps with their loss     *)
(* and metric aggregation, the KL coefficient, and the three inference     *)
(* entry points.                                                           *)
(*                                                                         *)
(* Tensors are modelled by their shape and, where a value matters, by      *)
(* integer entries; a mean is an exact rational <<numerator, denominator>> *)
(* (floating-point rounding is not modelled).  The sub-networks (encoders, *)
(* goal encoders, plan networks, action decoder) are external: the model   *)
(* records that they are called and draws their outputs from small sets.   *)
(***************************************************************************)
EXTENDS Integers, Sequences, FiniteSets, TLC

VARIABLES kl_beta, set_beta, params, depth_obs, val_outputs, last

vars == <<kl_beta, set_beta, params, depth_obs, val_outputs, last>>

---------------------------------------------------------------------------
(* Bounds of the model.                                                    *)

MaxBatch == 2
MaxSeq == 2
MaxBeta == 2
MaxLoss == 1
MaxValSteps == 2

---------------------------------------------------------------------------
(* Exact rationals <<n, d>> with d > 0.                                    *)

\* the element of a one-element set: The({e : x \in {v}}) is e with x
\* bound to the value of v
The(S) == CHOOSE v \in S : TRUE

Rat(n) == <<n, 1>>
RAdd(a, b) == The({<<x[1] * y[2] + y[1] * x[2], x[2] * y[2]>> : x \in {a}, y \in {b}})
RMul(a, b) == The({<<x[1] * y[1], x[2] * y[2]>> : x \in {a}, y \in {b}})
RDiv(a, n) == The({<<x[1], x[2] * n>> : x \in {a}})
REq(a, b) == \E x \in {a}, y \in {b} : x[1] * y[2] = y[1] * x[2]

RECURSIVE Gcd(_, _)
Gcd(a, b) == IF b = 0 THEN a ELSE Gcd(b, a % b)

Abs(x) == IF x < 0 THEN -x ELSE x

\* the canonical representative of a rational (a value is stored once)
Norm(a) ==
    The({The({IF g = 0 THEN <<0, 1>> ELSE <<x[1] \div g, x[2] \div g>> :
                g \in {Gcd(Abs(x[1]), x[2])}}) : x \in {a}})

RECURSIVE SumSeq(_)
SumSeq(s) == IF s = <<>> THEN 0 ELSE Head(s) + SumSeq(Tail(s))

RECURSIVE RSumSeq(_)
RSumSeq(s) == IF s = <<>> THEN Rat(0) ELSE RAdd(Head(s), RSumSeq(Tail(s)))

RECURSIVE Prod(_)
Prod(s) == IF s = <<>> THEN 1 ELSE Head(s) * Prod(Tail(s))

RECURSIVE Flatten(_)
Flatten(ss) == IF ss = <<>> THEN <<>> ELSE Head(ss) \o Flatten(Tail(ss))

\* torch.Tensor.mean() of a tensor given by the sequence of its entries
Mean(s) == The({Norm(<<SumSeq(v), Len(v)>>) : v \in {s}})

\* torch.Tensor.mean() of a tensor whose entries are rationals
RMean(s) == The({Norm(RDiv(RSumSeq(v), Len(v))) : v \in {s}})

---------------------------------------------------------------------------
(* Tensors by shape, and the containers that carry them.                   *)

NoneT == [shape |-> <<>>, from |-> "None"]

Tensor(shape, from) == [shape |-> shape, from |-> from]

\* a Python dict (kind "dict", items a function on its keys) or list
\* (kind "list", items a sequence)
PyDict(f) == [kind |-> "dict", items |-> f]
PyList(s) == [kind |-> "list", items |-> s]

\* key in d, for a dict
Has(d, k) == d.kind = "dict" /\ k \in DOMAIN d.items

\* x.reshape(-1, c, h, w)
ReshapeLead(shape, c, h, w) == <<Prod(shape) \div (c * h * w), c, h, w>>

\* x.reshape(b, s, -1)
ReshapeBS(shape, b, s) == <<b, s, Prod(shape) \div (b * s)>>

\* torch.unsqueeze(x, 2) of a 4-d tensor
Unsqueeze2(shape) == <<shape[1], shape[2], 1, shape[3], shape[4]>>

\* torch.cat([x, y], dim) is defined when all other dimensions agree
CatOk(x, y, dim) ==
    /\ Len(x) = Len(y)
    /\ \A i \in 1..Len(x) : i # dim => x[i] = y[i]

Cat(x, y, dim) == [i \in 1..Len(x) |-> IF i = dim THEN x[i] + y[i] ELSE x[i]]

\* output widths of the encoders (vision_static.visual_features, ...)
StaticFeatures == 4
GripperFeatures == 2
TactileFeatures == 1

\* an encoder maps (N, C, H, W) to (N, F)
Encoder(x, features) == <<x[1], features>>


---------------------------------------------------------------------------
(* visual_embedding: the fusion of the camera, depth and tactile streams.  *)

\* what a call of visual_embedding leaves behind: the exception it raised
\* ("None" when it returned), the shape it returned, what each encoder was
\* fed, and which mapping each fused depth tensor was read from
Raise(e) ==
    [raised |-> e, shape |-> <<>>, calls |-> <<>>,
     static_in |-> <<>>, static_depth |-> "None",
     gripper_in |-> <<>>, gripper_depth |-> "None"]

\* one stream: flatten batch and sequence, append the depth channel when
\* there is one, encode, restore (batch, sequence, features)
EncodeBranch(img, depth, features) ==
    LET b == img.shape[1]
        s == img.shape[2]
        c == img.shape[3]
        h == img.shape[4]
        w == img.shape[5]
        flat == ReshapeLead(img.shape, c, h, w)
        d == ReshapeLead(Unsqueeze2(depth.shape), 1, h, w)
        fused == IF depth # NoneT THEN Cat(flat, d, 2) ELSE flat
    IN  [ok |-> (depth # NoneT => CatOk(flat, d, 2)),
         in |-> fused,
         out |-> ReshapeBS(Encoder(fused, features), b, s)]

\* torch.cat([encoded_imgs, encoded_branch], dim=-1)
FuseFeatures_seq(encoded_imgs, encoded_branch) == Cat(encoded_imgs, encoded_branch, 2)

FuseFeatures(encoded_imgs, encoded_branch) == Cat(encoded_imgs, encoded_branch, 3)

visual_embedding(imgs, depth_imgs) ==
    IF imgs.kind # "dict" THEN Raise("TypeError")
    ELSE IF ~Has(imgs, "rgb_static") THEN Raise("KeyError")
    ELSE IF Has(depth_imgs, "depth_static") /\ ~Has(imgs, "depth_static")
         THEN Raise("KeyError")
    ELSE IF Has(depth_imgs, "depth_gripper") /\ ~Has(imgs, "depth_gripper")
         THEN Raise("KeyError")
    ELSE
    LET imgs_static == imgs.items["rgb_static"]
        imgs_gripper == IF Has(imgs, "rgb_gripper") THEN imgs.items["rgb_gripper"] ELSE NoneT
        imgs_tactile == IF Has(imgs, "rgb_tactile") THEN imgs.items["rgb_tactile"] ELSE NoneT
        depth_static == IF Has(depth_imgs, "depth_static") THEN imgs.items["depth_static"] ELSE NoneT
        depth_gripper == IF Has(depth_imgs, "depth_gripper") THEN imgs.items["depth_gripper"] ELSE NoneT
        st == EncodeBranch(imgs_static, depth_static, StaticFeatures)
        gr == EncodeBranch(imgs_gripper, depth_gripper, GripperFeatures)
        ta == EncodeBranch(imgs_tactile, NoneT, TactileFeatures)
        e1 == st.out
        ok2 == imgs_gripper # NoneT => gr.ok /\ CatOk(e1, gr.out, 3)
        e2 == IF imgs_gripper # NoneT THEN FuseFeatures(e1, gr.out) ELSE e1
        ok3 == imgs_tactile # NoneT => CatOk(e2, ta.out, 3)
        e3 == IF imgs_tactile # NoneT THEN FuseFeatures(e2, ta.out) ELSE e2
    IN  IF ~(st.ok /\ ok2 /\ ok3) THEN Raise("RuntimeError")
        ELSE [raised |-> "None",
              shape |-> e3,
              calls |-> <<"vision_static">>
                        \o (IF imgs_gripper # NoneT THEN <<"vision_gripper">> ELSE <<>>)
                        \o (IF imgs_tactile # NoneT THEN <<"tactile_enc">> ELSE <<>>),
              static_in |-> st.in,
              static_depth |-> depth_static.from,
              gripper_in |-> IF imgs_gripper # NoneT THEN gr.in ELSE <<>>,
              gripper_depth |-> IF imgs_gripper # NoneT THEN depth_gripper.from ELSE "None"]

\* perceptual_embedding: torch.cat([visual_emb, obs], dim=-1)
NStateObs == 3

perceptual_embedding(visual_emb, obs) == Cat(visual_emb, obs, 3)

---------------------------------------------------------------------------
(* The inputs of visual_embedding: a modality batch's rgb_obs and          *)
(* depth_obs mappings.                                                     *)

Channels == {1, 3}

\* height (= width) of a camera's frames
Side(k) == IF k \in {"rgb_static", "depth_static"} THEN 2 ELSE 1

RgbKeys(grip, tact) ==
    {"rgb_static"} \cup (IF grip THEN {"rgb_gripper"} ELSE {})
                   \cup (IF tact THEN {"rgb_tactile"} ELSE {})

DepthKeys(ds, dg) ==
    (IF ds THEN {"depth_static"} ELSE {}) \cup (IF dg THEN {"depth_gripper"} ELSE {})

ObsTensor(k, b, s, c, from) ==
    IF k \in {"depth_static", "depth_gripper"}
    THEN Tensor(<<b, s, Side(k), Side(k)>>, from)
    ELSE Tensor(<<b, s, c, Side(k), Side(k)>>, from)

\* merged: the image mapping carries the depth entries as well
RgbObs(b, s, c, grip, tact, ds, dg, merged) ==
    PyDict([k \in RgbKeys(grip, tact) \cup (IF merged THEN DepthKeys(ds, dg) ELSE {})
               |-> ObsTensor(k, b, s, c, "rgb_obs")])

DepthObs(b, s, ds, dg) ==
    PyDict([k \in DepthKeys(ds, dg) |-> ObsTensor(k, b, s, 1, "depth_obs")])

\* the state of a freshly constructed module
Constructed ==
    /\ kl_beta = 1
    /\ set_beta = kl_beta
    /\ params = 0
    /\ depth_obs = FALSE
    /\ val_outputs = <<>>

InitEmb ==
    /\ Constructed
    /\ \E b \in 1..MaxBatch, s \in 1..MaxSeq, c \in Channels,
          grip \in BOOLEAN, tact \in BOOLEAN, ds \in BOOLEAN, dg \in BOOLEAN,
          merged \in BOOLEAN :
            last = [op |-> "input",
                    imgs |-> RgbObs(b, s, c, grip, tact, ds, dg, merged),
                    depth_imgs |-> DepthObs(b, s, ds, dg)]

VisualEmbedding ==
    /\ last.op = "input"
    /\ last' = [op |-> "visual_embedding", imgs |-> last.imgs,
                depth_imgs |-> last.depth_imgs,
                out |-> visual_embedding(last.imgs, last.depth_imgs)]
    /\ UNCHANGED <<kl_beta, set_beta, params, depth_obs, val_outputs>>

NextEmb == VisualEmbedding

SpecEmb == InitEmb /\ [][NextEmb]_vars

---------------------------------------------------------------------------
(* The KL coefficient and the training-time plan computation.              *)

\* set_kl_beta: the value of self.kl_beta after the call
set_kl_beta_keep(self_kl_beta, v) == self_kl_beta

set_kl_beta(self_kl_beta, v) == v

\* compute_kl_loss: kl is the tensor D.kl_divergence(pr_dist, pp_dist) by
\* its entries; the mean is scaled by the coefficient read from self
compute_kl_loss(kl, self_kl_beta) == Norm(RMul(Mean(kl), Rat(self_kl_beta)))

\* lmp_train: action_loss is what action_decoder.loss returns for the plan
\* sampled from the recognition distribution
lmp_train(action_loss, kl, self_kl_beta) ==
    LET kl_loss == compute_kl_loss(kl, self_kl_beta)
    IN  [kl_loss |-> kl_loss,
         action_loss |-> Rat(action_loss),
         total_loss |-> Norm(RAdd(Rat(action_loss), kl_loss)),
         calls |-> <<"plan_proposal", "plan_recognition", "action_decoder.loss">>]

\* "vis" in self.modality_scope, for the modality names of the model
ContainsVis(name) == name = "vis"

\* the goal encoder a modality's batch is sent to
GoalEncoder(name) == IF ContainsVis(name) THEN "visual_goal" ELSE "language_goal"

---------------------------------------------------------------------------
(* lmp_val: the validation-time evaluation of both plan distributions.     *)
(* An action tensor is a sequence (batch) of sequences (time) of 7-tuples: *)
(* three position, three orientation entries and the gripper action.       *)

\* an action tensor with the same pose entries everywhere and the gripper
\* entries g[i][t]
Actions(pos, orn, g) ==
    [i \in 1..Len(g) |-> [t \in 1..Len(g[i]) |->
        <<pos, pos, pos, orn, orn, orn, g[i][t]>>]]

\* m = x > 0; x[m] = 1; x[~m] = -1
Binarize(x) == IF x > 0 THEN 1 ELSE -1

\* the last entry of every (batch, timestep) position, in order
GripperEntries(acts) ==
    Flatten([i \in 1..Len(acts) |-> [t \in 1..Len(acts[i]) |-> acts[i][t][7]]])

\* torch.mean((gt_gripper_act == gripper_discrete).float())
gripper_sr(sample_act, actions) ==
    LET gripper_discrete == GripperEntries(sample_act)
        gt_gripper_act == GripperEntries(actions)
    IN  Mean([k \in 1..Len(gt_gripper_act) |->
                IF gt_gripper_act[k] = Binarize(gripper_discrete[k]) THEN 1 ELSE 0])

\* l1_loss(sample_act[..., :-1], actions[..., :-1], reduction="none"),
\* averaged over the time axis: (batch, 6)
mae(sample_act, actions) ==
    [i \in 1..Len(actions) |->
        [j \in 1..6 |->
            Mean([t \in 1..Len(actions[i]) |->
                    Abs(sample_act[i][t][j] - actions[i][t][j])])]]

\* dec_pp, dec_pr: what action_decoder.loss_and_act returns for the plan
\* sampled from the proposal and from the recognition distribution
lmp_val(dec_pp, dec_pr, kl, actions, self_kl_beta) ==
    [action_loss_pp |-> Rat(dec_pp.loss),
     action_loss_pr |-> Rat(dec_pr.loss),
     kl_loss |-> compute_kl_loss(kl, self_kl_beta),
     mae_pp |-> mae(dec_pp.act, actions),
     mae_pr |-> mae(dec_pr.act, actions),
     gripper_sr_pp |-> gripper_sr(dec_pp.act, actions),
     gripper_sr_pr |-> gripper_sr(dec_pr.act, actions),
     calls |-> <<"plan_proposal", "action_decoder.loss_and_act",
                 "plan_recognition", "action_decoder.loss_and_act">>]

---------------------------------------------------------------------------
(* training_step.  A batch is the insertion-ordered mapping from modality  *)
(* name to modality batch, given as a sequence of records:                 *)
(*   name         the modality name                                        *)
(*   b            the batch size of its tensors                            *)
(*   depth        whether depth_obs holds the two depth images             *)
(*   action_loss  what the action decoder returns as its loss              *)
(*   kl           the entries of the KL divergence of the two plan         *)
(*                distributions, one per batch element                     *)
(* The cameras are the static and the gripper camera; a batch of a         *)
(* language modality carries its "lang" entry.                             *)

BatchRgb(mb) == RgbObs(mb.b, MaxSeq, 3, TRUE, FALSE, mb.depth, mb.depth, FALSE)

BatchDepth(mb) == DepthObs(mb.b, MaxSeq, mb.depth, mb.depth)

\* the body of the loop of training_step for one modality batch
TrainModality(mb, self_kl_beta) ==
    The({ IF ve.raised # "None"
          THEN [raised |-> ve.raised, calls |-> ve.calls]
          ELSE [raised |-> "None",
                calls |-> ve.calls \o <<GoalEncoder(mb.name)>> \o out.calls,
                perceptual_emb |-> perceptual_embedding(ve.shape, <<mb.b, MaxSeq, NStateObs>>),
                kl |-> out.kl_loss, act_loss |-> out.action_loss,
                mod_loss |-> out.total_loss]
          : ve \in {visual_embedding(BatchRgb(mb), BatchDepth(mb))},
            out \in {lmp_train(mb.action_loss, mb.kl, self_kl_beta)} })

\* the index of the first modality whose body raises, 0 when none does
RECURSIVE FirstRaise(_, _)
FirstRaise(rs, i) ==
    IF i > Len(rs) THEN 0
    ELSE IF rs[i].raised # "None" THEN i
    ELSE FirstRaise(rs, i + 1)

\* total_loss / len(batch)
Average_sum(x, n) == Norm(x)

Average(x, n) == Norm(RDiv(x, n))

\* rs[i]: what the loop body leaves for the i-th modality; f: the first
\* modality whose body raises (0: none)
training_step(batch, self_kl_beta) ==
    The({ The({ IF f # 0
                THEN [raised |-> rs[f].raised,
                      calls |-> Flatten([i \in 1..f |-> rs[i].calls])]
                ELSE [raised |-> "None",
                      calls |-> Flatten([i \in 1..n |-> rs[i].calls]),
                      per_modality |-> [i \in 1..n |->
                          [name |-> batch[i].name, kl_loss_scaled |-> rs[i].kl,
                           action_loss |-> rs[i].act_loss, total_loss |-> rs[i].mod_loss]],
                      kl_loss |-> Average(RSumSeq([i \in 1..n |-> rs[i].kl]), n),
                      action_loss |-> Average(RSumSeq([i \in 1..n |-> rs[i].act_loss]), n),
                      total_loss |-> Average(RSumSeq([i \in 1..n |-> rs[i].mod_loss]), n)]
                : f \in {FirstRaise(rs, 1)}, n \in {Len(batch)} })
          : rs \in {[i \in 1..Len(batch) |-> TrainModality(batch[i], self_kl_beta)]} })

---------------------------------------------------------------------------
(* validation_step and validation_epoch_end.  A validation batch adds to   *)
(* each modality batch the ground-truth actions and what the decoder's     *)
(* loss_and_act returns for the two sampled plans (dec_pp, dec_pr).        *)

\* the modalities of the datamodule (self.trainer.datamodule.modalities)
Modalities == <<"vis", "lang">>

ValModality(mb, self_kl_beta) ==
    The({ IF ve.raised # "None"
          THEN [raised |-> ve.raised, calls |-> ve.calls]
          ELSE [raised |-> "None",
                calls |-> ve.calls \o <<GoalEncoder(mb.name)>> \o out.calls,
                out |-> [val_action_loss_pp |-> out.action_loss_pp,
                         val_action_loss_pr |-> out.action_loss_pr,
                         kl_loss |-> out.kl_loss,
                         mae_pp |-> out.mae_pp,
                         mae_pr |-> out.mae_pr,
                         gripper_sr_pp |-> out.gripper_sr_pp,
                         gripper_sr_pr |-> out.gripper_sr_pr]]
          : ve \in {visual_embedding(BatchRgb(mb), BatchDepth(mb))},
            out \in {lmp_val(mb.dec_pp, mb.dec_pr, mb.kl, mb.actions, self_kl_beta)} })

\* the output dictionary, keyed by modality (a sequence in Modalities' order)
validation_step(batch, self_kl_beta) ==
    The({ The({ IF f # 0
                THEN [raised |-> rs[f].raised,
                      calls |-> Flatten([i \in 1..f |-> rs[i].calls])]
                ELSE [raised |-> "None",
                      calls |-> Flatten([i \in 1..Len(batch) |-> rs[i].calls]),
                      output |-> [i \in 1..Len(batch) |-> rs[i].out]]
                : f \in {FirstRaise(rs, 1)} })
          : rs \in {[i \in 1..Len(batch) |-> ValModality(batch[i], self_kl_beta)]} })

\* torch.stack([x[key] for x in validation_step_outputs]).mean()
StackMean(outputs, m, key) ==
    RMean([k \in 1..Len(outputs) |-> outputs[k][m][key]])

\* torch.cat([x[key] for x in validation_step_outputs]): the rows of all steps
CatRows(outputs, m, key) ==
    Flatten([k \in 1..Len(outputs) |-> outputs[k][m][key]])

\* rows[..., lo:hi].mean()
ColumnsMean(rows, lo, hi) ==
    RMean(Flatten([r \in 1..Len(rows) |-> SubSeq(rows[r], lo, hi)]))

\* the eleven epoch-level values of one modality
ModalityEpoch(outputs, m) ==
    The({ [act_loss_pp |-> StackMean(outputs, m, "val_action_loss_pp"),
           act_loss_pr |-> StackMean(outputs, m, "val_action_loss_pr"),
           kl_loss |-> StackMean(outputs, m, "kl_loss"),
           total_mae_pr |-> ColumnsMean(mae_pr, 1, 6),
           total_mae_pp |-> ColumnsMean(mae_pp, 1, 6),
           pos_mae_pp |-> ColumnsMean(mae_pp, 1, 3),
           pos_mae_pr |-> ColumnsMean(mae_pr, 1, 3),
           orn_mae_pp |-> ColumnsMean(mae_pp, 4, 6),
           orn_mae_pr |-> ColumnsMean(mae_pr, 4, 6),
           grip_sr_pp |-> StackMean(outputs, m, "gripper_sr_pp"),
           grip_sr_pr |-> StackMean(outputs, m, "gripper_sr_pr")]
          : mae_pp \in {CatRows(outputs, m, "mae_pp")},
            mae_pr \in {CatRows(outputs, m, "mae_pr")} })

Metrics ==
    {"act_loss_pp", "act_loss_pr", "kl_loss", "total_mae_pr", "total_mae_pp",
     "pos_mae_pp", "pos_mae_pr", "orn_mae_pp", "orn_mae_pr",
     "grip_sr_pp", "grip_sr_pr"}

\* val_total / len(self.trainer.datamodule.modalities)
GlobalValue_sum(total, n) == Norm(total)

GlobalValue(total, n) == Norm(RDiv(total, n))

\* what validation_epoch_end logs: the per-modality and the global values
validation_epoch_end(validation_step_outputs) ==
    The({ [per_modality |-> per,
           global |-> [x \in Metrics |->
               GlobalValue(RSumSeq([m \in 1..Len(Modalities) |-> per[m][x]]),
                           Len(Modalities))]]
          : per \in {[m \in 1..Len(Modalities) |->
                        ModalityEpoch(validation_step_outputs, m)]} })

---------------------------------------------------------------------------
(* The inference entry points.  An observation is the list of camera       *)
(* images, the list of depth images and the state, each tensor with a      *)
(* leading axis of length 1 and tagged with the observation it is of.      *)

Unsqueeze0(x) == Tensor(<<1>> \o x.shape, x.from)

\* torch.cat([x, y]) along the first axis, then .unsqueeze(0)
CatPair(x, y) ==
    Tensor(<<1, x.shape[1] + y.shape[1]>> \o Tail(x.shape),
           IF x.from = y.from THEN x.from ELSE "mixed")

\* zip(xs, ys)
Min(a, b) == IF a < b THEN a ELSE b

\* with torch.no_grad(): the parameters after the forward pass
no_grad_step(p) == (p + 1) % 2

no_grad(p) == p

predict_with_plan(curr_imgs, curr_depths, curr_state, latent_goal, sampled_plan) ==
    LET imgs == PyList([i \in 1..Len(curr_imgs) |-> Unsqueeze0(curr_imgs[i])])
        depth_imgs == PyList([i \in 1..Len(curr_depths) |-> Unsqueeze0(curr_depths[i])])
        state == Unsqueeze0(curr_state)
        ve == visual_embedding(imgs, depth_imgs)
    IN  IF ve.raised # "None"
        THEN [raised |-> ve.raised, calls |-> ve.calls]
        ELSE [raised |-> "None",
              calls |-> ve.calls \o <<"action_decoder.act">>,
              ret |-> [net |-> "action_decoder.act",
                       sampled_plan |-> sampled_plan,
                       perceptual_emb |-> perceptual_embedding(ve.shape, state.shape),
                       latent_goal |-> latent_goal]]

get_pp_plan_vision(curr_imgs, curr_depths, goal_imgs, goal_depths, curr_state, goal_state) ==
    IF Len(curr_imgs) # Len(goal_imgs) \/ Len(curr_depths) # Len(goal_depths)
    THEN [raised |-> "AssertionError", calls |-> <<>>]
    ELSE
    LET imgs == PyList([i \in 1..Min(Len(curr_imgs), Len(goal_imgs)) |->
                            CatPair(curr_imgs[i], goal_imgs[i])])
        depth_imgs == PyList([i \in 1..Min(Len(curr_depths), Len(goal_depths)) |->
                            CatPair(curr_depths[i], goal_depths[i])])
        state == CatPair(curr_state, goal_state)
        ve == visual_embedding(imgs, depth_imgs)
        latent_goal == [net |-> "visual_goal", timestep |-> goal_state.from]
    IN  IF ve.raised # "None"
        THEN [raised |-> ve.raised, calls |-> ve.calls]
        ELSE [raised |-> "None",
              calls |-> ve.calls \o <<"visual_goal", "plan_proposal">>,
              ret |-> [sampled_plan |-> [net |-> "plan_proposal",
                                         timestep |-> curr_state.from,
                                         latent_goal |-> latent_goal],
                       latent_goal |-> latent_goal]]

get_pp_plan_lang_recognition(curr_imgs, curr_depths, curr_state, goal_lang) ==
    [raised |-> "TypeError", calls |-> <<"plan_recognition">>]

get_pp_plan_lang(curr_imgs, curr_depths, curr_state, goal_lang) ==
    LET imgs == PyList([i \in 1..Len(curr_imgs) |-> Unsqueeze0(curr_imgs[i])])
        depth_imgs == PyList([i \in 1..Len(curr_depths) |-> Unsqueeze0(curr_depths[i])])
        state == Unsqueeze0(curr_state)
        ve == visual_embedding(imgs, depth_imgs)
        latent_goal == [net |-> "language_goal", lang |-> goal_lang]
    IN  IF ve.raised # "None"
        THEN [raised |-> ve.raised, calls |-> ve.calls]
        ELSE [raised |-> "None",
              calls |-> ve.calls \o <<"language_goal", "plan_proposal">>,
              ret |-> [sampled_plan |-> [net |-> "plan_proposal",
                                         timestep |-> curr_state.from,
                                         latent_goal |-> latent_goal],
                       latent_goal |-> latent_goal]]

---------------------------------------------------------------------------
(* The module in use: the trainer's training steps and validation loop,    *)
(* the callback that sets the KL coefficient, and rollouts calling the     *)
(* inference entry points.  depth_obs tells whether the dataset's batches  *)
(* carry depth images.                                                     *)

\* the observation `id` with n_imgs cameras and n_depths depth images
Obs(id, n_imgs, n_depths) ==
    [imgs |-> [i \in 1..n_imgs |-> Tensor(<<1, 3, 2, 2>>, id)],
     depths |-> [i \in 1..n_depths |-> Tensor(<<1, 2, 2>>, id)],
     state |-> Tensor(<<1, NStateObs>>, id)]

CurrObs == {Obs("o1", n, d) : n \in 1..2, d \in 0..1}

\* the goal of a current observation: itself, or another observation
GoalObs(curr) == {curr} \cup {Obs("o2", n, d) : n \in 1..2, d \in 0..1}

\* the KL entries of a batch of b elements: k for the first, 0 for the rest
KlEntries(b, k) == [i \in 1..b |-> IF i = 1 THEN k ELSE 0]

TrainModalityBatches(name, depth) ==
    {[name |-> name, b |-> b, depth |-> depth, action_loss |-> a, kl |-> KlEntries(b, k)] :
        b \in 1..MaxBatch, a \in 0..MaxLoss, k \in 0..1}

\* the batches of the training loader: the vision modality, the language
\* modality (its loss MaxLoss), or both, the language batch then of the
\* smallest or the largest size with the complementary loss and the same KL
TrainBatches(depth) ==
    {<<v>> : v \in TrainModalityBatches("vis", depth)}
    \cup {<<l>> : l \in {x \in TrainModalityBatches("lang", depth) : x.action_loss = MaxLoss}}
    \cup {<<v, [name |-> "lang", b |-> bl, depth |-> depth,
                action_loss |-> MaxLoss - v.action_loss,
                kl |-> KlEntries(bl, v.kl[1])]>> :
            v \in TrainModalityBatches("vis", depth), bl \in {1, MaxBatch}}

\* a validation batch of b elements of one timestep: with e = 1 the
\* proposal branch is off by 1 in position and right about the gripper,
\* the recognition branch is off by 2 in orientation and wrong about the
\* gripper; with e = 0 the other way round, without pose error
ValModalityBatch(name, b, e, depth) ==
    [name |-> name, b |-> b, depth |-> depth,
     actions |-> Actions(0, 0, [i \in 1..b |-> <<1>>]),
     dec_pp |-> [loss |-> e,
                 act |-> Actions(e, 0, [i \in 1..b |-> <<IF e = 1 THEN 3 ELSE 0>>])],
     dec_pr |-> [loss |-> 1 - e,
                 act |-> Actions(0, 2 * e, [i \in 1..b |-> <<IF e = 1 THEN 0 ELSE 3>>])],
     kl |-> KlEntries(b, e)]

\* the batches of the validation loader: both modalities, of complementary
\* sizes and errors
ValBatches(depth) ==
    {<<ValModalityBatch("vis", bv, e, depth),
       ValModalityBatch("lang", MaxBatch + 1 - bv, 1 - e, depth)>> :
        bv \in 1..MaxBatch, e \in 0..1}

\* the kl_beta the module is constructed with
InitialKlBeta == 1

\* set_beta: the value last asked for (by the constructor or set_kl_beta)
Init ==
    /\ kl_beta = InitialKlBeta
    /\ set_beta = InitialKlBeta
    /\ params = 0
    /\ depth_obs \in BOOLEAN
    /\ val_outputs = <<>>
    /\ last = [op |-> "init"]

\* the validation loop runs its steps and validation_epoch_end in one go
InValidation == val_outputs # <<>>

SetKlBeta ==
    /\ ~InValidation
    /\ \E v \in 0..MaxBeta :
        /\ kl_beta' = set_kl_beta(kl_beta, v)
        /\ set_beta' = v
        /\ last' = [op |-> "set_kl_beta", v |-> v]
    /\ UNCHANGED <<params, depth_obs, val_outputs>>

\* a training step; the trainer then back-propagates the returned loss and
\* lets the optimizer update the parameters (params: the parity of the
\* number of updates)
TrainingStep ==
    /\ ~InValidation
    /\ \E batch \in TrainBatches(depth_obs) :
        LET out == training_step(batch, kl_beta)
        IN  /\ last' = [op |-> "training_step", batch |-> batch, out |-> out]
            /\ params' = IF out.raised = "None"
                         THEN (params + 1) % 2 ELSE params
    /\ UNCHANGED <<kl_beta, set_beta, depth_obs, val_outputs>>

ValidationStep ==
    /\ Len(val_outputs) < MaxValSteps
    /\ \E batch \in ValBatches(depth_obs) :
        LET out == validation_step(batch, kl_beta)
        IN  /\ last' = [op |-> "validation_step", batch |-> batch,
                        raised |-> out.raised, calls |-> out.calls]
            /\ val_outputs' = IF out.raised = "None"
                              THEN Append(val_outputs, out.output) ELSE val_outputs
    /\ UNCHANGED <<kl_beta, set_beta, depth_obs, params>>

ValidationEpochEnd ==
    /\ InValidation
    /\ last' = [op |-> "validation_epoch_end", outputs |-> val_outputs,
                logged |-> validation_epoch_end(val_outputs)]
    /\ val_outputs' = <<>>
    /\ UNCHANGED <<kl_beta, set_beta, depth_obs, params>>

PredictWithPlan ==
    /\ ~InValidation
    /\ \E curr \in CurrObs :
        last' = [op |-> "predict_with_plan", curr |-> curr,
                 out |-> predict_with_plan(curr.imgs, curr.depths, curr.state,
                                           "latent_goal", "sampled_plan")]
    /\ params' = no_grad(params)
    /\ UNCHANGED <<kl_beta, set_beta, depth_obs, val_outputs>>

GetPpPlanVision ==
    /\ ~InValidation
    /\ \E curr \in CurrObs : \E goal \in GoalObs(curr) :
        last' = [op |-> "get_pp_plan_vision", curr |-> curr, goal |-> goal,
                 out |-> get_pp_plan_vision(curr.imgs, curr.depths, goal.imgs,
                                            goal.depths, curr.state, goal.state)]
    /\ params' = no_grad(params)
    /\ UNCHANGED <<kl_beta, set_beta, depth_obs, val_outputs>>

GetPpPlanLang ==
    /\ ~InValidation
    /\ \E curr \in CurrObs :
        last' = [op |-> "get_pp_plan_lang", curr |-> curr,
                 out |-> get_pp_plan_lang(curr.imgs, curr.depths, curr.state, "goal_lang")]
    /\ params' = no_grad(params)
    /\ UNCHANGED <<kl_beta, set_beta, depth_obs, val_outputs>>

Next ==
    \/ SetKlBeta
    \/ TrainingStep
    \/ ValidationStep
    \/ ValidationEpochEnd
    \/ PredictWithPlan
    \/ GetPpPlanVision
    \/ GetPpPlanLang

Spec == Init /\ [][Next]_vars

---------------------------------------------------------------------------
(* Claims about the training step and the KL coefficient (under Spec).     *)

TrainReturned == last.op = "training_step" /\ last.out.raised = "None"

ValReturned == last.op = "validation_step" /\ last.raised = "None"

\* beta times the mean of a modality batch's KL entries
ScaledKl(mb, beta) == <<beta * SumSeq(mb.kl), mb.b>>

\* C1: a training step on N >= 1 modalities returns (sum over the
\* modalities of action_loss + kl_beta * mean KL) / N, and logs as the
\* aggregate action loss and scaled KL loss the per-modality sums over N,
\* whatever the modalities' batch sizes.
C1_TotalLossIsModalityAverage ==
    TrainReturned =>
        LET batch == last.batch
            N == Len(batch)
            ids == 1..N
        IN  /\ REq(RMul(last.out.total_loss, Rat(N)),
                   RSumSeq([i \in ids |->
                       RAdd(Rat(batch[i].action_loss), ScaledKl(batch[i], kl_beta))]))
            /\ REq(RMul(last.out.action_loss, Rat(N)),
                   Rat(SumSeq([i \in ids |-> batch[i].action_loss])))
            /\ REq(RMul(last.out.kl_loss, Rat(N)),
                   RSumSeq([i \in ids |-> ScaledKl(batch[i], kl_beta)]))

\* a step on two modalities of different batch sizes, both with a KL term,
\* under a coefficient of 2
C1_Witness ==
    /\ TrainReturned
    /\ Len(last.batch) = 2
    /\ last.batch[1].b # last.batch[2].b
    /\ SumSeq(last.batch[1].kl) > 0 /\ SumSeq(last.batch[2].kl) > 0
    /\ last.batch[1].action_loss = 1
    /\ kl_beta = 2

\* C10: the scaled KL loss of every training and validation step is the
\* step's mean KL times the value last passed to set_kl_beta (the
\* constructor's kl_beta before any call).
C10_StepUsesLatestBeta ==
    /\ TrainReturned =>
         \A i \in 1..Len(last.batch) :
            /\ REq(last.out.per_modality[i].kl_loss_scaled, ScaledKl(last.batch[i], set_beta))
            /\ REq(last.out.per_modality[i].total_loss,
                   RAdd(Rat(last.batch[i].action_loss), ScaledKl(last.batch[i], set_beta)))
    /\ ValReturned =>
         \A m \in 1..Len(last.batch) :
            REq(val_outputs[Len(val_outputs)][m].kl_loss, ScaledKl(last.batch[m], set_beta))

\* a training step right after the coefficient was set away from the
\* constructor's value, on a batch with a KL term
C10_Witness ==
    /\ TrainReturned
    /\ set_beta = 2 /\ set_beta # InitialKlBeta
    /\ SumSeq(last.batch[1].kl) > 0
    /\ last.out.per_modality[1].kl_loss_scaled # Rat(0)

---------------------------------------------------------------------------
(* Claims about the validation epoch (under Spec).                         *)

EpochEnded == last.op = "validation_epoch_end"

MaeMetrics ==
    {"total_mae_pr", "total_mae_pp", "pos_mae_pp", "pos_mae_pr", "orn_mae_pp", "orn_mae_pr"}

\* the MAE tensor of a step's output a metric is about, and its columns
MaeOf(o, x) == IF x \in {"total_mae_pp", "pos_mae_pp", "orn_mae_pp"} THEN o.mae_pp ELSE o.mae_pr
FirstCol(x) == IF x \in {"orn_mae_pp", "orn_mae_pr"} THEN 4 ELSE 1
LastCol(x) == IF x \in {"pos_mae_pp", "pos_mae_pr"} THEN 3 ELSE 6

\* the value of metric x in one step's output o for one modality
StepValue(o, x) ==
    CASE x = "act_loss_pp" -> o.val_action_loss_pp
      [] x = "act_loss_pr" -> o.val_action_loss_pr
      [] x = "kl_loss" -> o.kl_loss
      [] x = "grip_sr_pp" -> o.gripper_sr_pp
      [] x = "grip_sr_pr" -> o.gripper_sr_pr
      [] OTHER -> ColumnsMean(MaeOf(o, x), FirstCol(x), LastCol(x))

\* the batch size of a step's output
StepSize(o) == Len(o.mae_pp)

\* the mean over the steps of the per-step value
MeanOverSteps(outputs, m, x) ==
    RDiv(RSumSeq([k \in 1..Len(outputs) |-> StepValue(outputs[k][m], x)]), Len(outputs))

\* the mean over the steps of the per-step value, each step weighted by its
\* batch size
WeightedOverSteps(outputs, m, x) ==
    RDiv(RSumSeq([k \in 1..Len(outputs) |->
                    RMul(Rat(StepSize(outputs[k][m])), StepValue(outputs[k][m], x))]),
         SumSeq([k \in 1..Len(outputs) |-> StepSize(outputs[k][m])]))

MeanOverModalities(F(_)) ==
    RDiv(RSumSeq([m \in 1..Len(Modalities) |-> F(m)]), Len(Modalities))

SameSizes(outputs) ==
    \A m \in 1..Len(Modalities) : \A j, k \in 1..Len(outputs) :
        StepSize(outputs[j][m]) = StepSize(outputs[k][m])

\* C2 (as the spec states it): after K >= 1 validation steps of any batch
\* sizes, every global value validation_epoch_end emits is the unweighted
\* mean across the modalities of the modality's mean over the K steps of
\* the per-step value.
C2_GlobalIsMeanOfStepMeans ==
    EpochEnded =>
        \A x \in Metrics :
            LET F(m) == MeanOverSteps(last.outputs, m, x)
            IN  REq(last.logged.global[x], MeanOverModalities(F))

\* C2 (amended): that holds of the action losses, the KL loss and the
\* gripper success rates; each MAE value is the unweighted mean across the
\* modalities of the modality's mean over all batch rows of all steps, that
\* is of the per-step values weighted by the steps' batch sizes, which is
\* the mean of the per-step values when the steps' batches have one size.
C2_GlobalIsMeanOverRows ==
    EpochEnded =>
        \A x \in Metrics :
            LET F(m) == MeanOverSteps(last.outputs, m, x)
                W(m) == WeightedOverSteps(last.outputs, m, x)
            IN  /\ x \notin MaeMetrics => REq(last.logged.global[x], MeanOverModalities(F))
                /\ x \in MaeMetrics => REq(last.logged.global[x], MeanOverModalities(W))
                /\ SameSizes(last.outputs) => REq(last.logged.global[x], MeanOverModalities(F))

\* an epoch of two steps whose batches differ in size, where the emitted
\* position error is not the mean of the two steps' position errors
C2_Witness ==
    /\ EpochEnded
    /\ Len(last.outputs) = 2
    /\ StepSize(last.outputs[1][1]) # StepSize(last.outputs[2][1])
    /\ LET F(m) == MeanOverSteps(last.outputs, m, "pos_mae_pp")
       IN  ~REq(last.logged.global["pos_mae_pp"], MeanOverModalities(F))

---------------------------------------------------------------------------
(* Claims about the inference entry points (under Spec).                   *)

InferenceOps == {"predict_with_plan", "get_pp_plan_vision", "get_pp_plan_lang"}

\* C4: a call of an inference entry point, wherever it falls among the
\* training steps and set_kl_beta calls, leaves the parameters and the KL
\* coefficient as they were.
C4_InferenceLeavesParameters ==
    [][last'.op \in InferenceOps => (params' = params /\ kl_beta' = kl_beta)]_vars

\* an inference call made after a training step updated the parameters and
\* after the coefficient was set
C4_Witness ==
    /\ last.op \in InferenceOps
    /\ params = 1
    /\ kl_beta = 2

C6_PredictWithPlanReturns ==
    last.op = "predict_with_plan" =>
        /\ last.out.raised = "None"
        /\ last.out.ret.net = "action_decoder.act"
        /\ last.out.ret.sampled_plan = "sampled_plan"
        /\ last.out.ret.latent_goal = "latent_goal"

\* C7 (as the spec states it): get_pp_plan_vision called with the goal
\* observation equal to the current one returns as latent goal the
\* visual-goal encoder's output on the embedding of that observation.
C7_SameGoalLatentGoal ==
    (last.op = "get_pp_plan_vision" /\ last.goal = last.curr) =>
        /\ last.out.raised = "None"
        /\ last.out.ret.latent_goal =
              [net |-> "visual_goal", timestep |-> last.curr.state.from]

---------------------------------------------------------------------------
(* Claims about visual_embedding (under SpecEmb).                          *)

EmbCall == last.op = "visual_embedding"

InShape == last.imgs.items["rgb_static"].shape

\* the sum of the output widths of the streams present in the image mapping
ActiveWidth(imgs) ==
    StaticFeatures
    + (IF Has(imgs, "rgb_gripper") THEN GripperFeatures ELSE 0)
    + (IF Has(imgs, "rgb_tactile") THEN TactileFeatures ELSE 0)

\* C8 (as the spec states it): for every combination of present and absent
\* entries of the image and depth mappings visual_embedding returns; a depth
\* entry of the depth mapping is fused as one extra channel (the encoder is
\* fed C+1 channels, the tensor being the depth mapping's), and without it
\* the encoder is fed the C RGB channels.
C8_DepthFusedFromDepthMapping ==
    EmbCall =>
        /\ last.out.raised = "None"
        /\ IF Has(last.depth_imgs, "depth_static")
           THEN /\ last.out.static_in[2] = InShape[3] + 1
                /\ last.out.static_depth = "depth_obs"
           ELSE last.out.static_in[2] = InShape[3]
        /\ Has(last.imgs, "rgb_gripper") =>
             IF Has(last.depth_imgs, "depth_gripper")
             THEN /\ last.out.gripper_in[2] = InShape[3] + 1
                  /\ last.out.gripper_depth = "depth_obs"
             ELSE last.out.gripper_in[2] = InShape[3]

\* C9: whenever visual_embedding returns, the tensor it returns has shape
\* (b, s, F): b and s are the input's batch size and sequence length and F
\* is the sum of the widths of the active branches (static, gripper if
\* present, tactile if present).
C9_EmbeddingShape ==
    (EmbCall /\ last.out.raised = "None") =>
        last.out.shape = <<InShape[1], InShape[2], ActiveWidth(last.imgs)>>

\* a call with all three streams, a batch of 2 and a sequence of 2 returned
C9_Witness ==
    /\ EmbCall
    /\ last.out.raised = "None"
    /\ Has(last.imgs, "rgb_gripper") /\ Has(last.imgs, "rgb_tactile")
    /\ InShape[1] = 2 /\ InShape[2] = 2
    /\ last.out.shape[3] = StaticFeatures + GripperFeatures + TactileFeatures

---------------------------------------------------------------------------
(* lmp_val as a function of the decoder's outputs and the ground truth.    *)

\* ground-truth gripper actions: the two commands and a positive value
\* that is not a command; predicted gripper actions: zero and a positive
GtGripper == {-1, 1, 2}
PredGripper == {0, 3}

Grid(b, s, vals) == [1..b -> [1..s -> vals]]

InitLmpVal ==
    /\ Constructed
    /\ \E b \in 1..MaxBatch, s \in 1..MaxSeq :
         \E gt \in Grid(b, s, GtGripper), pred \in Grid(b, s, PredGripper) :
            last = [op |-> "input",
                    actions |-> Actions(0, 0, gt),
                    dec_pp |-> [loss |-> 1, act |-> Actions(1, 0, pred)],
                    dec_pr |-> [loss |-> 0,
                                act |-> Actions(0, 2, [i \in 1..b |->
                                            [t \in 1..s |-> 1 - pred[i][t]]])],
                    kl |-> [i \in 1..b |-> 1]]

LmpVal ==
    /\ last.op = "input"
    /\ last' = [op |-> "lmp_val", actions |-> last.actions,
                dec_pp |-> last.dec_pp, dec_pr |-> last.dec_pr,
                out |-> lmp_val(last.dec_pp, last.dec_pr, last.kl,
                                last.actions, kl_beta)]
    /\ UNCHANGED <<kl_beta, set_beta, params, depth_obs, val_outputs>>

NextLmpVal == LmpVal

SpecLmpVal == InitLmpVal /\ [][NextLmpVal]_vars

\* the fraction of positions at which prediction and ground truth, both
\* binarized at zero, agree
BinarizedMatchRate(sample_act, actions) ==
    LET p == GripperEntries(sample_act)
        g == GripperEntries(actions)
    IN  Mean([k \in 1..Len(g) |-> IF Binarize(g[k]) = Binarize(p[k]) THEN 1 ELSE 0])

\* C3 (as the spec states it): in lmp_val the gripper success rate of the
\* proposal and of the recognition branch is the fraction of (batch,
\* timestep) positions at which the prediction binarized to +1/-1 equals
\* the ground truth binarized the same way, for any ground-truth value.
C3_BothBinarized ==
    last.op = "lmp_val" =>
        /\ last.out.gripper_sr_pp = BinarizedMatchRate(last.dec_pp.act, last.actions)
        /\ last.out.gripper_sr_pr = BinarizedMatchRate(last.dec_pr.act, last.actions)

---------------------------------------------------------------------------
(* setup_input_sizes: the derived dimensions written into the              *)
(* configuration objects before the sub-networks are instantiated.         *)

MaxRanges == 2
MaxIndex == 2

\* a field of a configuration that nothing has written yet
Missing == -1

\* an optional configuration that is None
NoneCfg == [present |-> FALSE, num_c |-> 0, visual_features |-> 0]

EncoderCfg(num_c, visual_features) ==
    [present |-> TRUE, num_c |-> num_c, visual_features |-> visual_features]

DepthCfg(num_c) == [present |-> TRUE, num_c |-> num_c, visual_features |-> 0]

NetCfg == [n_state_obs |-> Missing, visual_features |-> Missing]

\* np.diff along the last axis of one row
np_diff(row) == [i \in 1..(Len(row) - 1) |-> row[i + 1] - row[i]]

\* int(np.sum(np.diff(keep_indices))), without the subtraction
n_state_obs_end(keep_indices) ==
    SumSeq([k \in 1..Len(keep_indices) |-> keep_indices[k][2]])

n_state_obs(keep_indices) ==
    SumSeq(Flatten([k \in 1..Len(keep_indices) |-> np_diff(keep_indices[k])]))

\* the configuration objects after one call; raised names the exception
\* that ended the call ("None" when it returned)
setup_input_sizes(c) ==
    LET n == n_state_obs(c.proprio_state)
        c1 == [c EXCEPT !.plan_proposal.n_state_obs = n,
                        !.plan_recognition.n_state_obs = n,
                        !.visual_goal.n_state_obs = n,
                        !.decoder.n_state_obs = n,
                        !.raised = "None"]
        vf1 == c.vision_static.visual_features
        vf2 == IF c.vision_gripper.present
               THEN vf1 + c.vision_gripper.visual_features ELSE vf1
        c2 == IF c.depth_gripper.present /\ c.vision_gripper.num_c < 4
              THEN [c1 EXCEPT !.vision_gripper.num_c = @ + c.depth_gripper.num_c]
              ELSE c1
        c3 == IF c.depth_static.present /\ c.vision_static.num_c < 4
              THEN [c2 EXCEPT !.vision_static.num_c = @ + c.depth_static.num_c]
              ELSE c2
        vf3 == IF c.tactile.present THEN vf2 + c.tactile.visual_features ELSE vf2
    IN  IF c.depth_gripper.present /\ ~c.vision_gripper.present
        THEN [c1 EXCEPT !.raised = "AttributeError"]
        ELSE [c3 EXCEPT !.plan_proposal.visual_features = vf3,
                        !.plan_recognition.visual_features = vf3,
                        !.visual_goal.visual_features = vf3,
                        !.decoder.visual_features = vf3]

\* keep_indices: up to MaxRanges half-open ranges [start, end) within
\* 0..MaxIndex
Ranges == {r \in (0..MaxIndex) \X (0..MaxIndex) : r[1] <= r[2]}

KeepIndices == UNION {[1..n -> Ranges] : n \in 0..MaxRanges}

\* num_c of a camera encoder: greyscale, RGB, RGB with the depth channel
\* already counted
NumC == {1, 3, 4}

Configs ==
    {[vision_static |-> EncoderCfg(nc, StaticFeatures),
      depth_static |-> IF ds THEN DepthCfg(1) ELSE NoneCfg,
      vision_gripper |-> IF grip THEN EncoderCfg(nc, GripperFeatures) ELSE NoneCfg,
      depth_gripper |-> IF dg THEN DepthCfg(1) ELSE NoneCfg,
      tactile |-> IF tact THEN EncoderCfg(3, TactileFeatures) ELSE NoneCfg,
      proprio_state |-> keep,
      plan_proposal |-> NetCfg, plan_recognition |-> NetCfg,
      visual_goal |-> NetCfg, decoder |-> NetCfg,
      raised |-> "None"] :
        nc \in NumC, ds \in BOOLEAN, grip \in BOOLEAN, dg \in BOOLEAN,
        tact \in BOOLEAN, keep \in KeepIndices}

InitSetup ==
    /\ Constructed
    /\ \E c \in Configs : last = [op |-> "input", calls |-> 0, cfg |-> c, out |-> c]

\* one invocation on the same configuration objects (the constructor makes
\* the first; a second construction from the same objects makes another)
SetupInputSizes ==
    /\ last.calls < 2
    /\ last' = [op |-> "setup_input_sizes", calls |-> last.calls + 1,
                cfg |-> last.cfg, out |-> setup_input_sizes(last.out)]
    /\ UNCHANGED <<kl_beta, set_beta, params, depth_obs, val_outputs>>

NextSetup == SetupInputSizes

SpecSetup == InitSetup /\ [][NextSetup]_vars

Nets(c) == <<c.plan_proposal, c.plan_recognition, c.visual_goal, c.decoder>>

SetupCall == last.op = "setup_input_sizes"

\* the sum of (end - start) over the ranges
RECURSIVE RangeTotal(_)
RangeTotal(keep_indices) ==
    IF keep_indices = <<>> THEN 0
    ELSE (Head(keep_indices)[2] - Head(keep_indices)[1]) + RangeTotal(Tail(keep_indices))

\* C11: after setup_input_sizes ran on a configuration whose keep_indices
\* is a list of half-open [start, end) ranges, the n_state_obs of the
\* plan_proposal, plan_recognition, visual_goal and decoder configurations
\* all equal the sum of (end - start) over the ranges.
C11_NStateObsIsRangeTotal ==
    SetupCall =>
        \A k \in 1..4 : Nets(last.out)[k].n_state_obs = RangeTotal(last.cfg.proprio_state)

\* two ranges, the second not starting at 0, total 3
C11_Witness ==
    /\ SetupCall
    /\ last.calls = 1
    /\ last.cfg.proprio_state = <<<<0, 2>>, <<1, 2>>>>
    /\ last.cfg.decoder.n_state_obs = Missing
    /\ \A k \in 1..4 : Nets(last.out)[k].n_state_obs = 3

\* the static encoder's width, plus the gripper encoder's and the tactile
\* encoder's when they are configured
ConfiguredWidth(c) ==
    c.vision_static.visual_features
    + (IF c.vision_gripper.present THEN c.vision_gripper.visual_features ELSE 0)
    + (IF c.tactile.present THEN c.tactile.visual_features ELSE 0)

\* C12 (as the spec states it): after setup_input_sizes ran, for every
\* configuration, the visual_features of the plan_proposal,
\* plan_recognition, visual_goal and decoder configurations all equal the
\* static encoder's width plus the gripper encoder's width iff a gripper
\* encoder is configured plus the tactile encoder's width iff a tactile
\* encoder is configured, whatever the depth configuration is.
C12_VisualFeaturesIsConfiguredWidth ==
    SetupCall =>
        \A k \in 1..4 : Nets(last.out)[k].visual_features = ConfiguredWidth(last.cfg)

\* a depth encoder is configured, and each configured depth encoder has
\* its camera's RGB encoder configured with it
DepthAlongsideRgb(c) ==
    /\ c.depth_static.present \/ c.depth_gripper.present
    /\ c.depth_gripper.present => c.vision_gripper.present

\* C13 (as the spec states it): for every configuration with a depth
\* encoder configured alongside an RGB encoder, after setup_input_sizes was
\* invoked twice on the same configuration objects the num_c of the static
\* and gripper encoders, n_state_obs and visual_features equal their
\* values after a single invocation.
C13_SecondCallChangesNothing ==
    (SetupCall /\ last.calls = 2 /\ DepthAlongsideRgb(last.cfg)) =>
        LET once == setup_input_sizes(last.cfg)
        IN  /\ last.out.vision_static.num_c = once.vision_static.num_c
            /\ last.out.vision_gripper.num_c = once.vision_gripper.num_c
            /\ Nets(last.out) = Nets(once)

=============================================================================
